---- MODULE Spec2Model ----
(***************************************************************************)
(* Authorization, ownership and session model of the athlete management    *)
(* backend (Express routes, middleware and controllers).                   *)
(*                                                                         *)
(* A request is one action: the route's middleware chain (authenticate,    *)
(* authorize, the Joi validator) followed by the controller, run to its    *)
(* response.  The stores hold the documents as the controllers read and    *)
(* write them (athlete.user, athlete.coaches, item.recordedBy, ...).       *)
(* resp is the response of the last request together with the facts of    *)
(* the request the properties speak about.                                 *)
(***************************************************************************)
EXTENDS Integers, Sequences, FiniteSets, TLC

\* ------------------------------------------------------------------ bounds
MaxUsers == 2
MaxTok == 3
MaxMail == 3
MaxTime == 26
MaxActors == 3
MaxAthletes == 1
MaxDocs == 1
MaxItems == 1
\* the requests in progress at a time, where handlers are taken step by step
MaxCalls == 2

\* ------------------------------------------------------- program constants
\* lifetimes of the verification and of the reset token, in hours
VerifTTL == 24
ResetTTL == 1

\* null / undefined of a token field, and "no user" of a lookup
NoTok == 0
NoUid == 0

\* the roles the registration validator accepts
RegistrationRoles ==
    {"athlete", "coach", "admin", "organization", "scout", "physiotherapist", "nutritionist"}
NoRole == "none"

UserIds == 1..MaxUsers
Emails == 1..MaxUsers
Passwords == {"pw1", "pw2"}
Tokens == 1..MaxTok
\* the id carried by an access token whose account has since been removed
DeletedUserId == MaxUsers + 1

VARIABLES users, accessIssued, nextTok, nextMail, now, superseded, issuedTo, loggedOut,
          consumed, scope, athletes, docs, items, nextItem, resp, athleteDocs, calls

authVars == <<users, accessIssued, nextTok, nextMail, now, superseded, issuedTo, loggedOut,
              consumed>>
\* the Athlete collection, the documents of the controller in scope (Financial or
\* Career profiles, Performance or Injury records) and the items embedded in
\* the list in scope
resVars == <<scope, athletes, docs, items, nextItem, athleteDocs, calls>>
\* the Athlete documents as a list, and the requests in progress, for the runs
\* that take a handler one await at a time
stepVars == <<athleteDocs, calls>>
vars == <<users, accessIssued, nextTok, nextMail, now, superseded, issuedTo, loggedOut,
          consumed, scope, athletes, docs, items, nextItem, resp, athleteDocs, calls>>

\* ------------------------------------------------------------ identity store
AbsentUser ==
    [exists |-> FALSE, email |-> 0, password |-> "pw1", role |-> "athlete",
     isVerified |-> FALSE, isActive |-> FALSE, refreshToken |-> NoTok,
     verificationToken |-> NoTok, verificationTokenExpiry |-> 0,
     resetPasswordToken |-> NoTok, resetPasswordExpiry |-> 0]

\* a NewUser that always files the default role
NewUserAsAthlete(email, password, role, vtok, vexp) ==
    [exists |-> TRUE, email |-> email, password |-> password,
     role |-> "athlete",
     isVerified |-> FALSE, isActive |-> TRUE, refreshToken |-> NoTok,
     verificationToken |-> vtok, verificationTokenExpiry |-> vexp,
     resetPasswordToken |-> NoTok, resetPasswordExpiry |-> 0]

\* new User({...}) of register: unverified, active, no refresh token
NewUser(email, password, role, vtok, vexp) ==
    [exists |-> TRUE, email |-> email, password |-> password,
     role |-> IF role = NoRole THEN "athlete" ELSE role,
     isVerified |-> FALSE, isActive |-> TRUE, refreshToken |-> NoTok,
     verificationToken |-> vtok, verificationTokenExpiry |-> vexp,
     resetPasswordToken |-> NoTok, resetPasswordExpiry |-> 0]

\* the account the database holds when the server starts: verified, logged in
\* earlier (refresh token 1), then deactivated by support
SeedUser ==
    [exists |-> TRUE, email |-> 1, password |-> "pw1", role |-> "athlete",
     isVerified |-> TRUE, isActive |-> FALSE, refreshToken |-> 1,
     verificationToken |-> NoTok, verificationTokenExpiry |-> 0,
     resetPasswordToken |-> NoTok, resetPasswordExpiry |-> 0]

\* sha256 of the reset token: injective, and never a raw token
Sha256(t) == MaxMail + t

\* User.findOne({ email })
FindByEmail(email) ==
    LET hit == {u \in DOMAIN users : users[u].exists /\ users[u].email = email}
    IN IF hit = {} THEN NoUid ELSE CHOOSE u \in hit : TRUE

\* User.findById(id)
FindById(id) ==
    IF id \in DOMAIN users /\ users[id].exists THEN id ELSE NoUid

\* User.findOne({ refreshToken })
FindByRefreshToken(tok) ==
    LET hit == {u \in DOMAIN users : users[u].exists /\ users[u].refreshToken = tok}
    IN IF hit = {} THEN NoUid ELSE CHOOSE u \in hit : TRUE

\* User.findOne({ verificationToken: token, verificationTokenExpiry: { $gt: Date.now() } })
FindByVerificationToken(tok) ==
    LET hit == {u \in DOMAIN users : /\ users[u].exists
                               /\ users[u].verificationToken = tok
                               /\ users[u].verificationTokenExpiry > now}
    IN IF hit = {} THEN NoUid ELSE CHOOSE u \in hit : TRUE

\* User.findOne({ resetPasswordToken: hashedToken, resetPasswordExpiry: { $gt: Date.now() } })
FindByResetToken(hashed) ==
    LET hit == {u \in DOMAIN users : /\ users[u].exists
                               /\ users[u].resetPasswordToken = hashed
                               /\ users[u].resetPasswordExpiry > now}
    IN IF hit = {} THEN NoUid ELSE CHOOSE u \in hit : TRUE

\* user.comparePassword(password)
ComparePassword(u, password) == users[u].password = password

\* validateRegistration: the role, when given, is one of the enum
ValidateAnyRole(role) == TRUE

ValidateRegistration(role) == role = NoRole \/ role \in RegistrationRoles

\* ------------------------------------------------------------- authenticate
\* what a request carries in its Authorization header
Bearers ==
    [kind : {"none", "invalid", "expired"}, id : {NoUid}]
        \cup [kind : {"valid"}, id : UserIds \cup {DeletedUserId}]

\* the tokens a client can hold: signed by the server for that id
Presentable(b) == b.kind = "valid" => b.id \in accessIssued

\* an authenticate that lets a deactivated account through
AuthenticateIgnoringActive(b) ==
    IF b.kind \in {"none", "invalid", "expired"} THEN [status |-> 401, user |-> NoUid]
    ELSE IF FindById(b.id) = NoUid THEN [status |-> 401, user |-> NoUid]
    ELSE [status |-> 0, user |-> b.id]

\* authenticate: the status it answers (0: next() was called) and req.user
Authenticate(b) ==
    IF b.kind = "none" THEN [status |-> 401, user |-> NoUid]
    ELSE IF b.kind \in {"invalid", "expired"} THEN [status |-> 401, user |-> NoUid]
    ELSE IF FindById(b.id) = NoUid THEN [status |-> 401, user |-> NoUid]
    ELSE IF ~users[b.id].isActive THEN [status |-> 401, user |-> NoUid]
    ELSE [status |-> 0, user |-> b.id]

\* ------------------------------------------------------------------ response
PublicRoute == [kind |-> "public", id |-> NoUid]

\* the response of a request, with the request it answers: the route (op), the
\* Authorization header (bearer), whether the controller ran, the authenticated
\* user, the token presented in the body or path, and the tokens issued
Resp(op, bearer, status, ran, actor, tok, newTok, access) ==
    [op |-> op, bearer |-> bearer, status |-> status, ran |-> ran, actor |-> actor,
     tok |-> tok, newTok |-> newTok, access |-> access, message |-> "",
     ctrl |-> "auth", kind |-> "", facts |-> {}]

\* a response that issues no token
Plain(op, bearer, status, ran, actor, tok) ==
    Resp(op, bearer, status, ran, actor, tok, NoTok, NoUid)

\* the same response with the message of its body
Msg(r, message) == [r EXCEPT !.message = message]

\* no response is being written: the server takes the next request
NoResponse == Plain("idle", PublicRoute, 0, FALSE, NoUid, NoTok)
Idle == resp.op = "idle"

\* the 401 of authenticate: the controller is not called
Rejected(op, b) ==
    /\ resp' = Plain(op, b, Authenticate(b).status, FALSE, NoUid, NoTok)
    /\ UNCHANGED <<authVars, resVars>>

\* the auth routes touch the User collection only
NoScope == [ctrl |-> "auth", list |-> ""]

Init ==
    /\ users = [u \in UserIds |-> IF u = 1 THEN SeedUser ELSE AbsentUser]
    /\ accessIssued = {1, DeletedUserId}
    /\ nextTok = 2
    /\ nextMail = 1
    /\ now = 0
    /\ superseded = {}
    /\ issuedTo = [t \in Tokens |-> IF t = 1 THEN 1 ELSE NoUid]
    /\ loggedOut = {}
    /\ consumed = {}
    /\ scope = NoScope
    /\ athletes = <<>>
    /\ docs = <<>>
    /\ items = {}
    /\ nextItem = 1
    /\ resp = NoResponse
    /\ athleteDocs = <<>>
    /\ calls = <<>>

\* ------------------------------------------------------------ auth controller
\* the smallest id no user has yet (the _id of the next User document)
FreeUid == CHOOSE u \in UserIds : ~users[u].exists /\ \A v \in UserIds : v < u => users[v].exists

\* POST /api/auth/register : validateRegistration, register
Register(email, password, role, mailOk) ==
    IF ~ValidateRegistration(role)
    THEN /\ resp' = Plain("register", PublicRoute, 400, FALSE, NoUid, NoTok)
         /\ UNCHANGED authVars
    ELSE IF FindByEmail(email) # NoUid
    THEN /\ resp' = Plain("register", PublicRoute, 400, TRUE, NoUid, NoTok)
         /\ UNCHANGED authVars
    ELSE /\ \E u \in UserIds : ~users[u].exists
         /\ nextMail <= MaxMail
         /\ now + VerifTTL <= MaxTime
         /\ users' = [users EXCEPT ![FreeUid] =
                        NewUser(email, password, role, nextMail, now + VerifTTL)]
         /\ nextMail' = nextMail + 1
         /\ resp' = Plain("register", PublicRoute, IF mailOk THEN 201 ELSE 500,
                          TRUE, FreeUid, NoTok)
         /\ UNCHANGED <<accessIssued, nextTok, now, superseded, issuedTo, loggedOut, consumed>>

\* a verifyEmail that leaves the stored token and its expiry in place
VerifyEmailKeepingToken(tok) ==
    LET u == FindByVerificationToken(tok)
    IN IF u = NoUid
       THEN /\ resp' = Plain("verifyEmail", PublicRoute, 400, TRUE, NoUid, tok)
            /\ UNCHANGED authVars
       ELSE /\ users' = [users EXCEPT ![u].isVerified = TRUE]
            /\ consumed' = consumed \cup {tok}
            /\ resp' = Plain("verifyEmail", PublicRoute, 200, TRUE, u, tok)
            /\ UNCHANGED <<accessIssued, nextTok, nextMail, now, superseded, issuedTo, loggedOut>>

\* POST /api/auth/verify-email/:token
VerifyEmail(tok) ==
    LET u == FindByVerificationToken(tok)
    IN IF u = NoUid
       THEN /\ resp' = Plain("verifyEmail", PublicRoute, 400, TRUE, NoUid, tok)
            /\ UNCHANGED authVars
       ELSE /\ users' = [users EXCEPT ![u].isVerified = TRUE,
                                      ![u].verificationToken = NoTok,
                                      ![u].verificationTokenExpiry = 0]
            /\ consumed' = consumed \cup {tok}
            /\ resp' = Plain("verifyEmail", PublicRoute, 200, TRUE, u, tok)
            /\ UNCHANGED <<accessIssued, nextTok, nextMail, now, superseded, issuedTo, loggedOut>>

\* a login that does not look at isVerified
LoginWithoutVerifiedCheck(email, password) ==
    LET u == FindByEmail(email)
    IN IF u = NoUid \/ ~ComparePassword(u, password) \/ ~users[u].isActive
       THEN /\ resp' = Msg(Plain("login", PublicRoute, 401, TRUE, u, NoTok),
                           "Invalid email or password")
            /\ UNCHANGED authVars
       ELSE /\ nextTok <= MaxTok
            /\ users' = [users EXCEPT ![u].refreshToken = nextTok]
            /\ nextTok' = nextTok + 1
            /\ accessIssued' = accessIssued \cup {u}
            /\ superseded' = superseded \cup ({users[u].refreshToken} \ {NoTok})
            /\ issuedTo' = [issuedTo EXCEPT ![nextTok] = u]
            /\ loggedOut' = loggedOut \ {u}
            /\ resp' = Resp("login", PublicRoute, 200, TRUE, u, NoTok, nextTok, u)
            /\ UNCHANGED <<nextMail, now, consumed>>

\* POST /api/auth/login : validateLogin, login
Login(email, password) ==
    LET u == FindByEmail(email)
    IN IF u = NoUid
       THEN /\ resp' = Msg(Plain("login", PublicRoute, 401, TRUE, NoUid, NoTok),
                           "Invalid email or password")
            /\ UNCHANGED authVars
       ELSE IF ~ComparePassword(u, password)
       THEN /\ resp' = Msg(Plain("login", PublicRoute, 401, TRUE, u, NoTok),
                           "Invalid email or password")
            /\ UNCHANGED authVars
       ELSE IF ~users[u].isVerified
       THEN /\ resp' = Msg(Plain("login", PublicRoute, 401, TRUE, u, NoTok),
                           "Please verify your email before logging in")
            /\ UNCHANGED authVars
       ELSE IF ~users[u].isActive
       THEN /\ resp' = Msg(Plain("login", PublicRoute, 401, TRUE, u, NoTok),
                           "Your account has been deactivated. Please contact support.")
            /\ UNCHANGED authVars
       ELSE /\ nextTok <= MaxTok
            /\ users' = [users EXCEPT ![u].refreshToken = nextTok]
            /\ nextTok' = nextTok + 1
            /\ accessIssued' = accessIssued \cup {u}
            /\ superseded' = superseded \cup ({users[u].refreshToken} \ {NoTok})
            /\ issuedTo' = [issuedTo EXCEPT ![nextTok] = u]
            /\ loggedOut' = loggedOut \ {u}
            /\ resp' = Resp("login", PublicRoute, 200, TRUE, u, NoTok, nextTok, u)
            /\ UNCHANGED <<nextMail, now, consumed>>

\* a refreshToken that answers with a new pair but does not save the new value
RefreshTokenWithoutRotation(tok) ==
    LET u == FindByRefreshToken(tok)
    IN IF tok = NoTok \/ u = NoUid
       THEN /\ resp' = Msg(Plain("refreshToken", PublicRoute, 401, TRUE, NoUid, tok),
                           "Invalid refresh token")
            /\ UNCHANGED authVars
       ELSE /\ nextTok <= MaxTok
            /\ nextTok' = nextTok + 1
            /\ accessIssued' = accessIssued \cup {u}
            /\ superseded' = superseded \cup {tok}
            /\ issuedTo' = [issuedTo EXCEPT ![nextTok] = u]
            /\ resp' = Resp("refreshToken", PublicRoute, 200, TRUE, u, tok, nextTok, u)
            /\ UNCHANGED <<users, nextMail, now, loggedOut, consumed>>

\* POST /api/auth/refresh-token
RefreshToken(tok) ==
    IF tok = NoTok
    THEN /\ resp' = Msg(Plain("refreshToken", PublicRoute, 400, TRUE, NoUid, tok),
                        "Refresh token is required")
         /\ UNCHANGED authVars
    ELSE LET u == FindByRefreshToken(tok)
         IN IF u = NoUid
            THEN /\ resp' = Msg(Plain("refreshToken", PublicRoute, 401, TRUE, NoUid, tok),
                                "Invalid refresh token")
                 /\ UNCHANGED authVars
            ELSE /\ nextTok <= MaxTok
                 /\ users' = [users EXCEPT ![u].refreshToken = nextTok]
                 /\ nextTok' = nextTok + 1
                 /\ accessIssued' = accessIssued \cup {u}
                 /\ superseded' = superseded \cup {tok}
                 /\ issuedTo' = [issuedTo EXCEPT ![nextTok] = u]
                 /\ resp' = Resp("refreshToken", PublicRoute, 200, TRUE, u, tok, nextTok, u)
                 /\ UNCHANGED <<nextMail, now, loggedOut, consumed>>

\* a logout that answers 200 and leaves the stored refresh token
LogoutWithoutClearing(b) ==
    LET a == Authenticate(b)
    IN IF a.status # 0
       THEN Rejected("logout", b)
       ELSE /\ loggedOut' = loggedOut \cup {a.user}
            /\ resp' = Plain("logout", b, 200, TRUE, a.user, NoTok)
            /\ UNCHANGED <<users, accessIssued, nextTok, nextMail, now, superseded, issuedTo,
                           consumed>>

\* POST /api/auth/logout : authenticate, logout
Logout(b) ==
    LET a == Authenticate(b)
    IN IF a.status # 0
       THEN Rejected("logout", b)
       ELSE /\ users' = [users EXCEPT ![a.user].refreshToken = NoTok]
            /\ loggedOut' = loggedOut \cup {a.user}
            /\ resp' = Plain("logout", b, 200, TRUE, a.user, NoTok)
            /\ UNCHANGED <<accessIssued, nextTok, nextMail, now, superseded, issuedTo, consumed>>

\* GET /api/auth/me : authenticate, getCurrentUser
GetCurrentUser(b) ==
    LET a == Authenticate(b)
    IN IF a.status # 0
       THEN Rejected("getCurrentUser", b)
       ELSE /\ resp' = Plain("getCurrentUser", b,
                             IF FindById(a.user) = NoUid THEN 404 ELSE 200,
                             TRUE, a.user, NoTok)
            /\ UNCHANGED authVars

\* PUT /api/auth/me : authenticate, updateCurrentUser (names, phone and language
\* only: none of the fields of this model)
UpdateCurrentUser(b) ==
    LET a == Authenticate(b)
    IN IF a.status # 0
       THEN Rejected("updateCurrentUser", b)
       ELSE /\ resp' = Plain("updateCurrentUser", b,
                             IF FindById(a.user) = NoUid THEN 404 ELSE 200,
                             TRUE, a.user, NoTok)
            /\ UNCHANGED authVars

\* PUT /api/auth/change-password : authenticate, changePassword
ChangePassword(b, currentPassword, newPassword) ==
    LET a == Authenticate(b)
    IN IF a.status # 0
       THEN Rejected("changePassword", b)
       ELSE IF FindById(a.user) = NoUid
       THEN /\ resp' = Plain("changePassword", b, 404, TRUE, a.user, NoTok)
            /\ UNCHANGED authVars
       ELSE IF ~ComparePassword(a.user, currentPassword)
       THEN /\ resp' = Plain("changePassword", b, 401, TRUE, a.user, NoTok)
            /\ UNCHANGED authVars
       ELSE /\ users' = [users EXCEPT ![a.user].password = newPassword]
            /\ resp' = Plain("changePassword", b, 200, TRUE, a.user, NoTok)
            /\ UNCHANGED <<accessIssued, nextTok, nextMail, now, superseded, issuedTo, loggedOut, consumed>>

\* POST /api/auth/forgot-password
ForgotPassword(email, mailOk) ==
    LET u == FindByEmail(email)
    IN IF u = NoUid
       THEN /\ resp' = Plain("forgotPassword", PublicRoute, 404, TRUE, NoUid, NoTok)
            /\ UNCHANGED authVars
       ELSE /\ nextMail <= MaxMail
            /\ now + ResetTTL <= MaxTime
            /\ users' = [users EXCEPT ![u].resetPasswordToken = Sha256(nextMail),
                                      ![u].resetPasswordExpiry = now + ResetTTL]
            /\ nextMail' = nextMail + 1
            /\ resp' = Plain("forgotPassword", PublicRoute, IF mailOk THEN 200 ELSE 500,
                             TRUE, u, NoTok)
            /\ UNCHANGED <<accessIssued, nextTok, now, superseded, issuedTo, loggedOut, consumed>>

\* POST /api/auth/reset-password
ResetPassword(tok, password) ==
    IF tok = NoTok
    THEN /\ resp' = Plain("resetPassword", PublicRoute, 500, TRUE, NoUid, tok)
         /\ UNCHANGED authVars
    ELSE LET u == FindByResetToken(Sha256(tok))
         IN IF u = NoUid
            THEN /\ resp' = Plain("resetPassword", PublicRoute, 400, TRUE, NoUid, tok)
                 /\ UNCHANGED authVars
            ELSE /\ users' = [users EXCEPT ![u].password = password,
                                           ![u].resetPasswordToken = NoTok,
                                           ![u].resetPasswordExpiry = 0]
                 /\ consumed' = consumed \cup {tok}
                 /\ resp' = Plain("resetPassword", PublicRoute, 200, TRUE, u, tok)
                 /\ UNCHANGED <<accessIssued, nextTok, nextMail, now, superseded, issuedTo, loggedOut>>

\* Date.now(): time passes until the deadline of a stored token
Deadlines ==
    {users[u].verificationTokenExpiry : u \in UserIds}
        \cup {users[u].resetPasswordExpiry : u \in UserIds}

Tick ==
    /\ \E t \in Deadlines : t > now /\ t <= MaxTime /\ now' = t
    /\ UNCHANGED <<users, accessIssued, nextTok, nextMail, superseded, issuedTo, loggedOut,
                   consumed, resp, resVars>>

\* res.json(...): the response is sent and the request is over
Respond ==
    /\ ~Idle
    /\ resp' = NoResponse
    /\ UNCHANGED <<authVars, resVars>>

\* what a request can carry as a token: nothing, or a value the server has
\* generated so far (a refresh token of 40 random bytes; a verification or
\* reset token of 32), or the stored hash of a reset token
PresentedTokens == 0..(nextTok - 1)
PresentedMailTokens == 0..(nextMail - 1)
HashedTokens == {Sha256(t) : t \in 1..(nextMail - 1)}

\* the session routes: accounts, login, refresh, logout and the protected routes
NextSession ==
    \/ \E e \in Emails, p \in Passwords, r \in {NoRole, "admin", "financial_advisor"},
          m \in BOOLEAN : Idle /\ Register(e, p, r, m) /\ UNCHANGED resVars
    \/ \E t \in PresentedMailTokens \ {NoTok} : Idle /\ VerifyEmail(t) /\ UNCHANGED resVars
    \/ \E e \in Emails, p \in Passwords : Idle /\ Login(e, p) /\ UNCHANGED resVars
    \/ \E t \in PresentedTokens : Idle /\ RefreshToken(t) /\ UNCHANGED resVars
    \/ \E b \in Bearers : Idle /\ Presentable(b) /\ Logout(b) /\ UNCHANGED resVars
    \/ \E b \in Bearers : Idle /\ Presentable(b) /\ GetCurrentUser(b) /\ UNCHANGED resVars
    \/ \E b \in Bearers : Idle /\ Presentable(b) /\ UpdateCurrentUser(b) /\ UNCHANGED resVars
    \/ \E b \in Bearers, p \in Passwords, q \in Passwords :
          Idle /\ Presentable(b) /\ ChangePassword(b, p, q) /\ UNCHANGED resVars
    \/ Respond

SpecSession == Init /\ [][NextSession]_vars

\* the single-use token routes: verification and password reset, as time passes
NextTokens ==
    \/ \E e \in Emails, m \in BOOLEAN : Idle /\ Register(e, "pw1", NoRole, m) /\ UNCHANGED resVars
    \/ \E t \in PresentedMailTokens \ {NoTok} : Idle /\ VerifyEmail(t) /\ UNCHANGED resVars
    \/ \E e \in Emails, m \in BOOLEAN : Idle /\ ForgotPassword(e, m) /\ UNCHANGED resVars
    \/ \E t \in PresentedMailTokens \cup HashedTokens, p \in Passwords :
          Idle /\ ResetPassword(t, p) /\ UNCHANGED resVars
    \/ Idle /\ Tick
    \/ Respond

SpecTokens == Init /\ [][NextTokens]_vars

\* ------------------------------------------------------ refreshToken, one
\* await at a time: the lookup by token value, then the save of the new value
\* on the user the call holds. Other requests come between the two.
LookupRefresh(tok) ==
    LET u == IF tok = NoTok THEN NoUid ELSE FindByRefreshToken(tok)
    IN /\ Len(calls) < MaxCalls
       /\ calls' = Append(calls,
                          [user |-> u, tok |-> tok, newTok |-> NoTok,
                           status |-> IF tok = NoTok THEN 400
                                      ELSE IF u = NoUid THEN 401 ELSE 0])
       /\ UNCHANGED <<authVars, scope, athletes, docs, items, nextItem, resp, athleteDocs>>

\* user.refreshToken = newRefreshToken; await user.save(); 200 with the pair
SaveRefresh(c) ==
    /\ calls[c].status = 0
    /\ nextTok <= MaxTok
    /\ users' = [users EXCEPT ![calls[c].user].refreshToken = nextTok]
    /\ nextTok' = nextTok + 1
    /\ accessIssued' = accessIssued \cup {calls[c].user}
    /\ superseded' = superseded \cup {calls[c].tok}
    /\ issuedTo' = [issuedTo EXCEPT ![nextTok] = calls[c].user]
    /\ calls' = [calls EXCEPT ![c].status = 200, ![c].newTok = nextTok]
    /\ UNCHANGED <<nextMail, now, loggedOut, consumed, scope, athletes, docs, items,
                   nextItem, resp, athleteDocs>>

NextRefresh ==
    \/ \E e \in Emails : Idle /\ Register(e, "pw1", NoRole, TRUE) /\ UNCHANGED resVars
    \/ \E t \in PresentedMailTokens \ {NoTok} : Idle /\ VerifyEmail(t) /\ UNCHANGED resVars
    \/ \E e \in Emails : Idle /\ Login(e, "pw1") /\ UNCHANGED resVars
    \/ \E b \in Bearers : Idle /\ Presentable(b) /\ Logout(b) /\ UNCHANGED resVars
    \/ Respond
    \/ \E t \in PresentedTokens : LookupRefresh(t)
    \/ \E c \in 1..Len(calls) : SaveRefresh(c)

SpecRefresh == Init /\ [][NextRefresh]_vars

\* ================================================================ resources
\* The accounts behind the resource requests: registered, verified and active,
\* one per id, with the roles of the registration enum in turn.
RoleCycle ==
    <<"athlete", "coach", "admin", "physiotherapist", "organization", "scout",
      "nutritionist">>
ActorIds == 1..MaxActors
Actor(u) ==
    [exists |-> TRUE, email |-> u, password |-> "pw1",
     role |-> RoleCycle[((u - 1) % Len(RoleCycle)) + 1],
     isVerified |-> TRUE, isActive |-> TRUE, refreshToken |-> NoTok,
     verificationToken |-> NoTok, verificationTokenExpiry |-> 0,
     resetPasswordToken |-> NoTok, resetPasswordExpiry |-> 0]

\* req.user.role
Role(u) == users[u].role

\* null of a lookup in the Athlete collection or in a document's list
NoId == 0

\* The Athlete collection: createAthleteProfile keeps one profile per user, so
\* a profile is filed under the id of the user who created it
NoAthlete == [exists |-> FALSE, user |-> NoUid, coaches |-> {}]
Athletes == {a \in DOMAIN athletes : athletes[a].exists}

\* Athlete.findById(id)
FindAthlete(a) == IF a \in Athletes THEN a ELSE NoId

\* Athlete.findOne({ user })
FindAthleteOfUser(u) ==
    IF \E a \in Athletes : athletes[a].user = u
    THEN CHOOSE a \in Athletes : athletes[a].user = u
    ELSE NoId

\* Financial.findOne({ athlete }) / Career.findOne({ athlete }): the first match
FindDoc(a) ==
    LET hit == {d \in 1..Len(docs) : docs[d].athlete = a}
    IN IF hit = {} THEN NoId ELSE CHOOSE d \in hit : \A x \in hit : d <= x

\* list.findIndex(x => x._id.toString() === id) in the document (or athlete) d
FindItem(d, i) ==
    IF \E it \in items : it.id = i /\ it.doc = d THEN i ELSE NoId
ItemOf(i) == CHOOSE it \in items : it.id = i

\* the operands with the role admin never holding
ClauseIgnoringAdmin(c, u, a, stamp, recStamp) ==
    CASE c = "owner" -> IF athletes[a].user = u THEN "yes" ELSE "no"
      [] c = "coachMember" -> IF u \in athletes[a].coaches THEN "yes" ELSE "no"
      [] c = "coachRole" -> IF Role(u) = "coach" THEN "yes" ELSE "no"
      [] c = "physio" -> IF Role(u) = "physiotherapist" THEN "yes" ELSE "no"
      [] c = "advisor" -> IF Role(u) = "financial_advisor" THEN "yes" ELSE "no"
      [] c = "admin" -> "no"
      [] c = "stamp" ->
            IF stamp = NoUid THEN "throw" ELSE IF stamp = u THEN "yes" ELSE "no"
      [] c = "recordStamp" ->
            IF recStamp = NoUid THEN "throw" ELSE IF recStamp = u THEN "yes" ELSE "no"

\* one operand of an isAuthorized expression, for req.user u, athlete a, the
\* creator stamp of the targeted item and of the targeted record: "yes", "no",
\* or "throw" when .toString() is called on a stamp that is not there
Clause(c, u, a, stamp, recStamp) ==
    CASE c = "owner" -> IF athletes[a].user = u THEN "yes" ELSE "no"
      [] c = "coachMember" -> IF u \in athletes[a].coaches THEN "yes" ELSE "no"
      [] c = "coachRole" -> IF Role(u) = "coach" THEN "yes" ELSE "no"
      [] c = "physio" -> IF Role(u) = "physiotherapist" THEN "yes" ELSE "no"
      [] c = "advisor" -> IF Role(u) = "financial_advisor" THEN "yes" ELSE "no"
      [] c = "admin" -> IF Role(u) = "admin" THEN "yes" ELSE "no"
      [] c = "stamp" ->
            IF stamp = NoUid THEN "throw" ELSE IF stamp = u THEN "yes" ELSE "no"
      [] c = "recordStamp" ->
            IF recStamp = NoUid THEN "throw" ELSE IF recStamp = u THEN "yes" ELSE "no"

\* only the last operand deciding
IsAuthorizedLastOnly(policy, u, a, stamp, recStamp) ==
    IF policy = <<>> THEN "no"
    ELSE Clause(policy[Len(policy)], u, a, stamp, recStamp)

\* a || b || ... evaluated from the left, stopping at the first operand that
\* holds or throws
RECURSIVE IsAuthorized(_, _, _, _, _)
IsAuthorized(policy, u, a, stamp, recStamp) ==
    IF policy = <<>> THEN "no"
    ELSE LET r == Clause(Head(policy), u, a, stamp, recStamp)
         IN IF r = "no" THEN IsAuthorized(Tail(policy), u, a, stamp, recStamp) ELSE r

\* the status a decision leads to (0: the handler goes on)
Denied(decision) ==
    IF decision = "yes" THEN 0 ELSE IF decision = "no" THEN 403 ELSE 500

\* authorize(roles): the route-level role list ({}: the route has none)
AuthorizeEveryone(roles, u) == 0

Authorize(roles, u) == IF roles = {} \/ Role(u) \in roles THEN 0 ELSE 403

\* ------------------------------------------------------------------ handlers
\* A handler as its route and controller read: the controller and the list it
\* works on ("": the whole document), what it does, the roles of the route's
\* authorize, whether the route has a Joi validator, what the controller
\* requires first (a file, a query parameter, a body field; "cast": an id that
\* is no ObjectId), whether it looks the athlete up, where isAuthorized stands
\* ("athlete": after the athlete lookup; "item": after the document and item
\* lookups; "none"), and the operands of isAuthorized in order.
H(name, ctrl, list, kind, roles, validator, requires, checkAthlete, authAt, policy) ==
    [name |-> name, ctrl |-> ctrl, list |-> list, kind |-> kind, roles |-> roles,
     validator |-> validator, requires |-> requires, checkAthlete |-> checkAthlete,
     authAt |-> authAt, policy |-> policy]

OwnerAdmin == <<"owner", "admin">>
OwnerAdminCoach == <<"owner", "admin", "coachRole">>

\* athlete.routes.js and athlete.controller.js
AthleteHandlers ==
    {H("getAllAthletes", "athlete", "", "read", {"admin", "coach", "organization"},
       FALSE, "none", FALSE, "none", <<>>),
     H("getAthleteById", "athlete", "", "read", {}, FALSE, "none", TRUE, "none", <<>>),
     H("searchAthletes", "athlete", "", "read", {}, FALSE, "cast", TRUE, "none", <<>>),
     H("getAthleteStatistics", "athlete", "", "read", {}, FALSE, "none", TRUE, "none", <<>>),
     H("createAthleteProfile", "athlete", "", "createAthlete", {}, TRUE, "none", FALSE,
       "none", <<>>),
     H("updateAthleteProfile", "athlete", "", "write", {}, TRUE, "none", TRUE, "athlete",
       OwnerAdmin),
     H("uploadProfilePicture", "athlete", "", "write", {}, FALSE, "file", TRUE, "athlete",
       OwnerAdmin),
     H("addAchievement", "athlete", "achievements", "add", {}, FALSE, "none", TRUE,
       "athlete", OwnerAdminCoach),
     H("updateAchievement", "athlete", "achievements", "update", {}, FALSE, "none", TRUE,
       "athlete", OwnerAdminCoach),
     H("deleteAchievement", "athlete", "achievements", "delete", {}, FALSE, "none", TRUE,
       "athlete", OwnerAdminCoach),
     H("addDocument", "athlete", "documents", "add", {}, FALSE, "file", TRUE, "athlete",
       OwnerAdmin),
     H("deleteDocument", "athlete", "documents", "delete", {}, FALSE, "none", TRUE,
       "athlete", OwnerAdmin),
     H("addCoach", "athlete", "", "addCoach", {}, FALSE, "coachId", TRUE, "athlete",
       OwnerAdmin),
     H("removeCoach", "athlete", "", "removeCoach", {}, FALSE, "none", TRUE, "athlete",
       OwnerAdmin),
     H("verifyAthlete", "athlete", "", "write", {"admin", "organization"}, FALSE, "none",
       TRUE, "none", <<>>)}

\* the financial operands with the athlete's coaches let in
FinancialPolicyWithCoaches == <<"owner", "coachMember", "advisor", "admin">>
FinancialPolicy == <<"owner", "advisor", "admin">>
FinancialItemPolicy == <<"owner", "stamp", "advisor", "admin">>

\* the add / update / delete handlers of one Financial list
FinancialList(list, add, update, delete, validator) ==
    {H(add, "financial", list, "add", {}, validator, "none", TRUE, "athlete",
       FinancialPolicy),
     H(update, "financial", list, "update", {}, validator, "none", TRUE, "item",
       FinancialItemPolicy),
     H(delete, "financial", list, "delete", {}, FALSE, "none", TRUE, "item",
       FinancialItemPolicy)}

\* financial.routes.js and financial.controller.js
FinancialHandlers ==
    {H("getAthleteFinancials", "financial", "", "read", {}, FALSE, "none", TRUE,
       "athlete", FinancialPolicy),
     H("createOrUpdateFinancialProfile", "financial", "", "profile", {}, FALSE, "none",
       TRUE, "athlete", FinancialPolicy),
     H("uploadFinancialDocument", "financial", "documents", "add", {}, FALSE, "file",
       TRUE, "athlete", FinancialPolicy),
     H("deleteFinancialDocument", "financial", "documents", "delete", {}, FALSE, "none",
       TRUE, "item", FinancialItemPolicy),
     H("getFinancialAnalytics", "financial", "", "read", {}, FALSE, "none", TRUE,
       "athlete", FinancialPolicy),
     H("getTaxSummary", "financial", "", "read", {}, FALSE, "year", TRUE, "athlete",
       FinancialPolicy),
     H("getFinancialRecommendations", "financial", "", "read", {}, FALSE, "none", TRUE,
       "athlete", FinancialPolicy)}
    \cup FinancialList("income", "addIncomeRecord", "updateIncomeRecord",
                       "deleteIncomeRecord", TRUE)
    \cup FinancialList("expenses", "addExpenseRecord", "updateExpenseRecord",
                       "deleteExpenseRecord", TRUE)
    \cup FinancialList("sponsorships", "addSponsorship", "updateSponsorship",
                       "deleteSponsorship", FALSE)
    \cup FinancialList("investments", "addInvestment", "updateInvestment",
                       "deleteInvestment", FALSE)
    \cup FinancialList("goals", "addFinancialGoal", "updateFinancialGoal",
                       "deleteFinancialGoal", FALSE)

OwnerCoachAdmin == <<"owner", "coachMember", "admin">>
CoachAdmin == <<"coachMember", "admin">>
StampAdmin == <<"stamp", "admin">>
OwnerCoachStampAdmin == <<"owner", "coachMember", "stamp", "admin">>
OwnerStampAdmin == <<"owner", "stamp", "admin">>

\* the add / update / delete handlers of one Career list: who may add, where
\* update and delete decide, and who may update or delete
CareerList(list, add, update, delete, validator, addPolicy, authAt, itemPolicy) ==
    {H(add, "career", list, "add", {}, validator, "none", TRUE, "athlete", addPolicy),
     H(update, "career", list, "update", {}, validator, "none", TRUE, authAt, itemPolicy),
     H(delete, "career", list, "delete", {}, FALSE, "none", TRUE, authAt, itemPolicy)}

\* career.routes.js and career.controller.js
CareerHandlers ==
    {H("getAthleteCareer", "career", "", "read", {}, FALSE, "none", FALSE, "none", <<>>),
     H("createOrUpdateCareerProfile", "career", "", "profile", {}, FALSE, "none", TRUE,
       "athlete", OwnerCoachAdmin),
     H("generateCareerRecommendations", "career", "", "read", {}, FALSE, "none", TRUE,
       "none", <<>>),
     H("getCareerAnalytics", "career", "", "read", {}, FALSE, "none", TRUE, "none", <<>>),
     H("uploadCareerDocument", "career", "documents", "add", {}, FALSE, "file", TRUE,
       "athlete", OwnerCoachAdmin)}
    \cup CareerList("goals", "addCareerGoal", "updateCareerGoal", "deleteCareerGoal",
                    TRUE, OwnerCoachAdmin, "athlete", OwnerCoachAdmin)
    \cup CareerList("skills", "addSkillAssessment", "updateSkillAssessment",
                    "deleteSkillAssessment", FALSE, CoachAdmin, "item", StampAdmin)
    \cup CareerList("competitions", "addCompetition", "updateCompetition",
                    "deleteCompetition", FALSE, OwnerCoachAdmin, "item",
                    OwnerCoachStampAdmin)
    \cup CareerList("trainingPrograms", "addTrainingProgram", "updateTrainingProgram",
                    "deleteTrainingProgram", FALSE, CoachAdmin, "item", StampAdmin)
    \cup CareerList("mentors", "addMentor", "updateMentor", "deleteMentor", FALSE,
                    OwnerCoachAdmin, "item", OwnerStampAdmin)
    \cup CareerList("opportunities", "addOpportunity", "updateOpportunity",
                    "deleteOpportunity", FALSE, OwnerCoachAdmin, "item", OwnerStampAdmin)

\* ------------------------------------------------------------------ requests
\* req.body, as far as the validators and handlers look at it: whether the
\* other keys the route's Joi schema requires are there and well formed, the
\* values of the keys athleteId and athlete (NoId: no such key), whether it
\* sets the creator stamp of the item (recordedBy, createdBy, ...) and to what,
\* and whether it carries the list in scope with one row
Body(required, athleteId, athlete, setsStamp, stamp, rows) ==
    [required |-> required, athleteId |-> athleteId, athlete |-> athlete,
     setsStamp |-> setsStamp, stamp |-> stamp, rows |-> rows]
NoBody == Body(FALSE, NoId, NoId, FALSE, NoUid, FALSE)

\* validateRequest(schema): the required keys are there and no key is one the
\* schema does not name.  The performance, injury, financial and career
\* schemas require athleteId and the athlete profile schema does not name it;
\* no schema names athlete, a creator stamp or a list
ValidateRequest(h, body) ==
    /\ body.required
    /\ (h.ctrl = "athlete") = (body.athleteId = NoId)
    /\ body.athlete = NoId
    /\ ~body.setsStamp
    /\ ~body.rows

\* a body that passes the validator of h and is about athlete a, and the same
\* with a creator stamp in it
Valid(h, a) == Body(TRUE, IF h.ctrl = "athlete" THEN NoId ELSE a, NoId, FALSE, NoUid, FALSE)
Stamping(h, a, s) == [Valid(h, a) EXCEPT !.setsStamp = TRUE, !.stamp = s]

\* the ids a body or a path can name as a coach, and as a creator stamp
CoachIds == {u \in ActorIds : Role(u) = "coach"}
StampInputs == {NoUid} \cup CoachIds

\* the Authorization header of a resource request: none, or an actor's token
NoBearer == [kind |-> "none", id |-> NoUid]
ActorBearers == [kind : {"valid"}, id : ActorIds]
\* ids a path can carry: every athlete, and one id that finds none; likewise
\* for the documents (records) and for the items
AthleteParams == Athletes \cup {MaxActors + 1}
DocParams == 1..(Len(docs) + 1)
ItemParams == {it.id : it \in items} \cup {nextItem}

\* what the request is with respect to its target, for the properties
Facts(u, a, stamp) ==
    (IF a # NoId THEN {"athlete"} ELSE {})
        \cup (IF a # NoId /\ athletes[a].user = u THEN {"owner"} ELSE {})
        \cup (IF a # NoId /\ u \in athletes[a].coaches THEN {"coachMember"} ELSE {})
        \cup (IF stamp # NoUid /\ stamp = u THEN {"creator"} ELSE {})

\* the response of a resource request of handler h
Answer(h, b, u, status, ran, facts) ==
    [Plain(h.name, b, status, ran, u, NoTok) EXCEPT
        !.ctrl = h.ctrl, !.kind = h.kind, !.facts = facts]

\* the middleware of the route: authenticate, authorize(roles), the validator
\* (0: the controller is called)
Middleware(h, b, body) ==
    LET auth == Authenticate(b)
    IN IF auth.status # 0 THEN auth.status
       ELSE IF Authorize(h.roles, auth.user) # 0 THEN 403
       ELSE IF h.validator /\ ~ValidateRequest(h, body) THEN 400
       ELSE 0

\* the head of a controller on an athlete's data: what it requires, the athlete
\* lookup, and isAuthorized where it stands right after that lookup
Prelude(h, u, a, has) ==
    IF h.requires = "cast" THEN 500
    ELSE IF h.requires # "none" /\ ~has THEN 400
    ELSE IF h.checkAthlete /\ FindAthlete(a) = NoId THEN 404
    ELSE IF h.authAt = "athlete" THEN Denied(IsAuthorized(h.policy, u, a, NoUid, NoUid))
    ELSE 0

\* the document holding the lists of athlete a: the athlete itself in the
\* athlete controller, its Financial or Career profile otherwise
DocOf(h, a) == IF h.ctrl = "athlete" THEN FindAthlete(a) ELSE FindDoc(a)

\* the lookups of an update or delete of item i, and isAuthorized where it
\* stands after them
Target(h, u, a, i) ==
    IF DocOf(h, a) = NoId THEN 404
    ELSE IF FindItem(DocOf(h, a), i) = NoId THEN 404
    ELSE IF h.authAt = "item"
        THEN Denied(IsAuthorized(h.policy, u, a, ItemOf(i).stamp, NoUid))
    ELSE 0

\* the status of a request up to the point where the handler acts (0)
Outcome(h, b, body, a, i, has) ==
    LET u == Authenticate(b).user
        mw == Middleware(h, b, body)
        pre == Prelude(h, u, a, has)
    IN IF mw # 0 THEN mw
       ELSE IF pre # 0 THEN pre
       ELSE IF h.kind \in {"update", "delete"} THEN Target(h, u, a, i)
       ELSE 0

\* the facts of a request about athlete a and item i
RequestFacts(h, b, a, i) ==
    LET u == Authenticate(b).user
        x == FindAthlete(a)
        d == IF x = NoId THEN NoId ELSE DocOf(h, a)
        it == IF d = NoId THEN NoId ELSE FindItem(d, i)
    IN Facts(u, x, IF it = NoId THEN NoUid ELSE ItemOf(i).stamp)
           \cup (IF it # NoId THEN {"item"} ELSE {})
           \cup (IF it # NoId /\ ItemOf(i).stamp = NoUid THEN {"unstamped"} ELSE {})

\* upload.single(...) of an upload route, after authenticate: a file the
\* request carries (and fileFilter accepts) is written to the uploads directory
\* before the handler is entered
Uploaded(h, b, body) ==
    IF h.requires = "file" /\ body.required /\ Authenticate(b).status = 0
    THEN {"stored"} ELSE {}

\* ------------------------------------------------------------------- actions
\* res.status(status).json(...) of handler h, with the facts of the request
Reply(h, b, body, a, i, status) ==
    resp' = Answer(h, b, Authenticate(b).user, status, Middleware(h, b, body) = 0,
                   RequestFacts(h, b, a, i) \cup Uploaded(h, b, body))

\* the status of a request that gets as far as its action with status done
Status(pre, done) == IF pre # 0 THEN pre ELSE done

\* a request without Authorization header: authenticate answers 401, whatever
\* the handler and the rest of the request
\* upload.single(...) stands between authenticate and the handler on the
\* upload routes. fileFilter accepts a file of an allowed type and otherwise
\* passes an Error to the callback ("" stands for no error); multer hands the
\* error to next(err) and the handler is not entered.
FileFilter(allowed) ==
    IF allowed THEN ""
    ELSE "Invalid file type. Only images, videos, PDFs, and documents are allowed."

\* the error handling middleware of the server: 500 with the error's message
ErrorHandler(h, b, err) ==
    Msg(Answer(h, b, Authenticate(b).user, 500, FALSE, {}),
        IF err # "" THEN err ELSE "Internal Server Error")

RejectUpload(h, b) ==
    /\ h.requires = "file"
    /\ Authenticate(b).status = 0
    /\ resp' = ErrorHandler(h, b, FileFilter(FALSE))
    /\ UNCHANGED <<authVars, resVars>>

Anonymous(h) ==
    /\ Reply(h, NoBearer, NoBody, NoId, NoId,
             Middleware(h, NoBearer, NoBody))
    /\ UNCHANGED <<authVars, resVars>>

\* the GET handlers: those of the financial and career controllers answer from
\* the athlete's profile document
Read(h, b, a, has) ==
    LET pre == Outcome(h, b, NoBody, a, NoId, has)
        found == h.ctrl \in {"financial", "career"} => FindDoc(a) # NoId
    IN /\ h.kind = "read"
       /\ Reply(h, b, NoBody, a, NoId, Status(pre, IF found THEN 200 ELSE 404))
       /\ UNCHANGED <<authVars, resVars>>

\* POST /api/athletes: one profile per user, owned by the user who creates it
CreateAthleteProfile(h, b, body) ==
    LET u == Authenticate(b).user
        pre == Middleware(h, b, body)
        status == Status(pre, IF FindAthleteOfUser(u) # NoId THEN 400 ELSE 201)
    IN /\ h.kind = "createAthlete"
       /\ status = 201 => Cardinality(Athletes) < MaxAthletes
       /\ Reply(h, b, body, NoId, NoId, status)
       /\ athletes' = IF status = 201
                      THEN [athletes EXCEPT
                               ![u] = [exists |-> TRUE, user |-> u, coaches |-> {}]]
                      ELSE athletes
       /\ UNCHANGED <<authVars, stepVars, scope, docs, items, nextItem>>

\* PUT /api/athletes/:id, its picture upload and its verification: the fields
\* they write are not read by any authorization decision
WriteAthlete(h, b, body, a, has) ==
    /\ h.kind = "write"
    /\ Reply(h, b, body, a, NoId, Status(Outcome(h, b, body, a, NoId, has), 200))
    /\ UNCHANGED <<authVars, resVars>>

\* POST /api/athletes/:id/coaches with coachId c in the body (NoId: none)
AddCoach(h, b, a, c) ==
    LET pre == Outcome(h, b, NoBody, a, NoId, c # NoId)
        status == Status(pre, IF c \in athletes[a].coaches THEN 400 ELSE 200)
    IN /\ h.kind = "addCoach"
       /\ Reply(h, b, NoBody, a, NoId, status)
       /\ athletes' = IF status = 200
                      THEN [athletes EXCEPT ![a].coaches = @ \cup {c}]
                      ELSE athletes
       /\ UNCHANGED <<authVars, stepVars, scope, docs, items, nextItem>>

\* DELETE /api/athletes/:id/coaches/:coachId
RemoveCoach(h, b, a, c) ==
    LET pre == Outcome(h, b, NoBody, a, NoId, TRUE)
        status == Status(pre, IF c \notin athletes[a].coaches THEN 404 ELSE 200)
    IN /\ h.kind = "removeCoach"
       /\ Reply(h, b, NoBody, a, NoId, status)
       /\ athletes' = IF status = 200
                      THEN [athletes EXCEPT ![a].coaches = @ \ {c}]
                      ELSE athletes
       /\ UNCHANGED <<authVars, stepVars, scope, docs, items, nextItem>>

\* the document a write to the lists of athlete a works on: the one found, or
\* the one it creates
Working(h, a) == IF DocOf(h, a) # NoId THEN DocOf(h, a) ELSE Len(docs) + 1
CreatedAlways(h, a, athleteRef) ==
    Append(docs, [athlete |-> athleteRef, stamp |-> NoUid])

Created(h, a, athleteRef) ==
    IF DocOf(h, a) # NoId THEN docs
    ELSE Append(docs, [athlete |-> athleteRef, stamp |-> NoUid])

\* the row a profile body puts in the list in scope: stamped as the body says
Row(d, body) ==
    [id |-> nextItem, doc |-> d, stamp |-> IF body.setsStamp THEN body.stamp ELSE NoUid]

\* POST /api/financial/athlete/:athleteId and POST /api/career/athlete/:athleteId:
\* findOneAndUpdate(req.body) on the profile found, create({athlete, ...req.body})
\* otherwise; a list in the body replaces the stored one
WriteProfile(h, b, body, a) ==
    LET pre == Outcome(h, b, body, a, NoId, TRUE)
        status == Status(pre, IF FindDoc(a) # NoId THEN 200 ELSE 201)
        acted == status \in {200, 201}
        d == Working(h, a)
        ref == IF body.athlete # NoId THEN body.athlete ELSE a
    IN /\ h.kind = "profile"
       /\ status = 201 => Len(docs) < MaxDocs
       /\ acted /\ body.rows => nextItem <= MaxItems
       /\ Reply(h, b, body, a, NoId, status)
       /\ docs' = IF status = 201 THEN Created(h, a, ref)
                  ELSE IF status = 200 THEN [docs EXCEPT ![d].athlete = ref]
                  ELSE docs
       /\ items' = IF acted /\ body.rows
                   THEN {it \in items : it.doc # d} \cup {Row(d, body)}
                   ELSE items
       /\ nextItem' = IF acted /\ body.rows THEN nextItem + 1 ELSE nextItem
       /\ UNCHANGED <<authVars, stepVars, scope, athletes>>

\* the add handlers: the profile is created when the athlete has none, and the
\* item is stamped with req.user.id after the body is spread
AddItem(h, b, body, a, has) ==
    LET u == Authenticate(b).user
        status == Status(Outcome(h, b, body, a, NoId, has), 201)
        stamp == IF h.ctrl = "athlete" THEN NoUid ELSE u
    IN /\ h.kind = "add"
       /\ status = 201 => nextItem <= MaxItems
       /\ status = 201 /\ DocOf(h, a) = NoId => Len(docs) < MaxDocs
       /\ Reply(h, b, body, a, NoId, status)
       /\ docs' = IF status = 201 THEN Created(h, a, a) ELSE docs
       /\ items' = IF status = 201
                   THEN items \cup {[id |-> nextItem, doc |-> Working(h, a), stamp |-> stamp]}
                   ELSE items
       /\ nextItem' = IF status = 201 THEN nextItem + 1 ELSE nextItem
       /\ UNCHANGED <<authVars, stepVars, scope, athletes>>

\* the update handlers: {...item.toObject(), ...req.body}, so a stamp in the
\* body replaces the one stored
UpdateItem(h, b, body, a, i) ==
    LET status == Status(Outcome(h, b, body, a, i, TRUE), 200)
        stamp == IF body.setsStamp /\ h.ctrl # "athlete" THEN body.stamp
                 ELSE ItemOf(i).stamp
    IN /\ h.kind = "update"
       /\ Reply(h, b, body, a, i, status)
       /\ items' = IF status = 200
                   THEN (items \ {ItemOf(i)}) \cup {[ItemOf(i) EXCEPT !.stamp = stamp]}
                   ELSE items
       /\ UNCHANGED <<authVars, stepVars, scope, athletes, docs, nextItem>>

\* the delete handlers: the item is spliced out of its list
DeleteItem(h, b, a, i) ==
    LET status == Status(Outcome(h, b, NoBody, a, i, TRUE), 200)
    IN /\ h.kind = "delete"
       /\ Reply(h, b, NoBody, a, i, status)
       /\ items' = IF status = 200 THEN items \ {ItemOf(i)} ELSE items
       /\ UNCHANGED <<authVars, stepVars, scope, athletes, docs, nextItem>>

\* ------------------------------------------------------------------- records
RecordOwnerCoachAdmin == <<"recordStamp", "owner", "coachMember", "admin">>
RecordCoachAdmin == <<"recordStamp", "coachMember", "admin">>
PhysioCoachAdmin == <<"physio", "coachMember", "admin">>
RecordPhysioCoachAdmin == <<"recordStamp", "physio", "coachMember", "admin">>
StampPhysioAdmin == <<"stamp", "physio", "admin">>

\* the performance routes and controller.  For a handler on a record, authAt
\* tells the order of its lookups: "record": record, athlete, isAuthorized;
\* "item": record, athlete, item, isAuthorized; "video": record, item, athlete,
\* isAuthorized; "none": record and athlete only
PerformanceHandlers ==
    {H("getAthletePerformance", "performance", "", "read", {}, FALSE, "none", FALSE,
       "none", <<>>),
     H("getPerformanceById", "performance", "", "readRecord", {}, FALSE, "none", FALSE,
       "none", <<>>),
     H("createPerformanceRecord", "performance", "", "createRecord", {}, TRUE, "none",
       TRUE, "athlete", OwnerCoachAdmin),
     H("updatePerformanceRecord", "performance", "", "writeRecord", {}, TRUE, "none",
       TRUE, "record", RecordOwnerCoachAdmin),
     H("deletePerformanceRecord", "performance", "", "deleteRecord", {}, FALSE, "none",
       TRUE, "record", RecordOwnerCoachAdmin),
     H("uploadVideo", "performance", "videos", "addToRecord", {}, FALSE, "file", TRUE,
       "record", RecordOwnerCoachAdmin),
     H("addVideoAnnotation", "performance", "videos", "annotate", {}, FALSE, "none", TRUE,
       "video", RecordCoachAdmin),
     H("getPerformanceAnalytics", "performance", "", "read", {}, FALSE, "none", FALSE,
       "none", <<>>),
     H("compareWithBenchmarks", "performance", "", "read", {}, FALSE, "none", TRUE,
       "none", <<>>),
     H("getPerformanceTrends", "performance", "", "read", {}, FALSE, "none", FALSE,
       "none", <<>>),
     H("addSkillAssessment", "performance", "skillAssessments", "addToRecord", {}, FALSE,
       "none", TRUE, "record", CoachAdmin),
     H("updateSkillAssessment", "performance", "skillAssessments", "updateInRecord", {},
       FALSE, "none", FALSE, "item", StampAdmin),
     H("getRecommendations", "performance", "", "read", {}, FALSE, "none", TRUE, "none",
       <<>>)}

\* the injury routes and injury.controller.js
InjuryHandlers ==
    {H("getAthleteInjuries", "injury", "", "read", {}, FALSE, "none", FALSE, "none", <<>>),
     H("getInjuryById", "injury", "", "readRecord", {}, FALSE, "none", FALSE, "none", <<>>),
     H("createInjuryRecord", "injury", "", "createRecord", {}, TRUE, "none", TRUE,
       "athlete", PhysioCoachAdmin),
     H("updateInjuryRecord", "injury", "", "writeRecord", {}, TRUE, "none", TRUE, "record",
       RecordPhysioCoachAdmin),
     H("deleteInjuryRecord", "injury", "", "deleteRecord", {"admin", "physiotherapist"},
       FALSE, "none", FALSE, "none", <<>>),
     H("uploadMedicalDocument", "injury", "medicalDocuments", "addToRecord", {}, FALSE,
       "file", TRUE, "record", PhysioCoachAdmin),
     H("deleteMedicalDocument", "injury", "medicalDocuments", "deleteFromRecord", {},
       FALSE, "none", TRUE, "item", StampPhysioAdmin),
     H("addRehabilitationPhase", "injury", "rehabilitationPlan", "addToRecord", {}, FALSE,
       "none", TRUE, "record", PhysioCoachAdmin),
     H("updateRehabilitationPhase", "injury", "rehabilitationPlan", "updateInRecord", {},
       FALSE, "none", TRUE, "item", StampPhysioAdmin),
     H("addProgressNote", "injury", "progressNotes", "addToRecord", {}, FALSE, "none",
       TRUE, "record", PhysioCoachAdmin),
     H("updateReturnToPlayAssessment", "injury", "", "writeRecord",
       {"physiotherapist", "coach", "admin"}, FALSE, "none", TRUE, "none", <<>>),
     H("getInjuryAnalytics", "injury", "", "read", {}, FALSE, "none", TRUE, "none", <<>>),
     H("getInjuryRiskAssessment", "injury", "", "read", {}, FALSE, "none", TRUE, "none",
       <<>>),
     H("getRehabilitationProgress", "injury", "", "readRecord", {}, FALSE, "none", FALSE,
       "none", <<>>)}

\* a record that findByIdAndDelete has removed: its id finds nothing
Gone == [athlete |-> NoId, stamp |-> NoUid]

\* Performance.findById(r) / Injury.findById(r)
FindRecord(r) == IF r \in 1..Len(docs) /\ docs[r] # Gone THEN r ELSE NoId

\* Athlete.findById(record.athlete)
AthleteOfRecord(r) == IF FindRecord(r) = NoId THEN NoId ELSE FindAthlete(docs[r].athlete)

\* isAuthorized of a handler on record r and its item i (NoId: none)
RecordDecision(h, u, r, i) ==
    Denied(IsAuthorized(h.policy, u, AthleteOfRecord(r),
                        IF i = NoId THEN NoUid ELSE ItemOf(i).stamp, docs[r].stamp))

\* the lookups of a handler on record r, in the handler's order, and its
\* isAuthorized
RecordTarget(h, u, r, i) ==
    LET noAthlete == h.checkAthlete /\ AthleteOfRecord(r) = NoId
        noItem == FindItem(r, i) = NoId
    IN IF FindRecord(r) = NoId THEN 404
       ELSE IF h.authAt = "video"
           THEN IF noItem \/ noAthlete THEN 404 ELSE RecordDecision(h, u, r, i)
       ELSE IF noAthlete THEN 404
       ELSE IF h.authAt = "item"
           THEN IF noItem THEN 404 ELSE RecordDecision(h, u, r, i)
       ELSE IF h.authAt = "record" THEN RecordDecision(h, u, r, NoId)
       ELSE 0

\* the status of a request on a record up to the point where the handler acts
RecordOutcome(h, b, body, r, i, has) ==
    LET mw == Middleware(h, b, body)
    IN IF mw # 0 THEN mw
       ELSE IF h.requires # "none" /\ ~has THEN 400
       ELSE RecordTarget(h, Authenticate(b).user, r, i)

\* the facts of a request on record r and its item i
RecordFacts(b, r, i) ==
    LET it == IF FindRecord(r) = NoId THEN NoId ELSE FindItem(r, i)
    IN Facts(Authenticate(b).user, AthleteOfRecord(r),
             IF it = NoId THEN NoUid ELSE ItemOf(i).stamp)
           \cup (IF FindRecord(r) # NoId THEN {"record"} ELSE {})
           \cup (IF FindRecord(r) # NoId /\ docs[r].stamp = Authenticate(b).user
                 THEN {"recorder"} ELSE {})
           \cup (IF it # NoId THEN {"item"} ELSE {})

RecordReply(h, b, body, r, i, status) ==
    resp' = Answer(h, b, Authenticate(b).user, status, Middleware(h, b, body) = 0,
                   RecordFacts(b, r, i) \cup Uploaded(h, b, body))

\* GET of one record
ReadRecord(h, b, r) ==
    /\ h.kind = "readRecord"
    /\ RecordReply(h, b, NoBody, r, NoId,
                   Status(RecordOutcome(h, b, NoBody, r, NoId, TRUE), 200))
    /\ UNCHANGED <<authVars, resVars>>

\* POST /api/performance and POST /api/injury: the athlete is looked up by
\* req.body.athlete, and the record is stamped after the body is spread
CreateRecord(h, b, body) ==
    LET u == Authenticate(b).user
        a == FindAthlete(body.athlete)
        named == IF body.athlete # NoId THEN body.athlete ELSE body.athleteId
        pre == IF Middleware(h, b, body) # 0 THEN Middleware(h, b, body)
               ELSE IF a = NoId THEN 404
               ELSE Denied(IsAuthorized(h.policy, u, a, NoUid, NoUid))
        status == Status(pre, 201)
    IN /\ h.kind = "createRecord"
       /\ status = 201 => Len(docs) < MaxDocs
       /\ resp' = Answer(h, b, u, status, Middleware(h, b, body) = 0,
                         Facts(u, FindAthlete(named), NoUid))
       /\ docs' = IF status = 201 THEN Append(docs, [athlete |-> a, stamp |-> u]) ELSE docs
       /\ UNCHANGED <<authVars, stepVars, scope, athletes, items, nextItem>>

\* PUT of a record and of its return-to-play assessment: the fields they write
\* are not read by any authorization decision
WriteRecord(h, b, body, r) ==
    /\ h.kind = "writeRecord"
    /\ RecordReply(h, b, body, r, NoId,
                   Status(RecordOutcome(h, b, body, r, NoId, TRUE), 200))
    /\ UNCHANGED <<authVars, resVars>>

\* DELETE of a record, with the items embedded in it
DeleteRecord(h, b, r) ==
    LET status == Status(RecordOutcome(h, b, NoBody, r, NoId, TRUE), 200)
    IN /\ h.kind = "deleteRecord"
       /\ RecordReply(h, b, NoBody, r, NoId, status)
       /\ docs' = IF status = 200 THEN [docs EXCEPT ![r] = Gone] ELSE docs
       /\ items' = IF status = 200 THEN {it \in items : it.doc # r} ELSE items
       /\ UNCHANGED <<authVars, stepVars, scope, athletes, nextItem>>

\* POST of a video, document, phase, note or assessment into a record
AddToRecord(h, b, body, r, has) ==
    LET u == Authenticate(b).user
        status == Status(RecordOutcome(h, b, body, r, NoId, has), 201)
    IN /\ h.kind = "addToRecord"
       /\ status = 201 => nextItem <= MaxItems
       /\ RecordReply(h, b, body, r, NoId, status)
       /\ items' = IF status = 201
                   THEN items \cup {[id |-> nextItem, doc |-> r, stamp |-> u]}
                   ELSE items
       /\ nextItem' = IF status = 201 THEN nextItem + 1 ELSE nextItem
       /\ UNCHANGED <<authVars, stepVars, scope, athletes, docs>>

\* POST of an annotation into a video of a record
Annotate(h, b, body, r, i) ==
    /\ h.kind = "annotate"
    /\ RecordReply(h, b, body, r, i, Status(RecordOutcome(h, b, body, r, i, TRUE), 201))
    /\ UNCHANGED <<authVars, resVars>>

\* PUT of an item of a record: {...item.toObject(), ...req.body}
UpdateInRecord(h, b, body, r, i) ==
    LET status == Status(RecordOutcome(h, b, body, r, i, TRUE), 200)
        stamp == IF body.setsStamp THEN body.stamp ELSE ItemOf(i).stamp
    IN /\ h.kind = "updateInRecord"
       /\ RecordReply(h, b, body, r, i, status)
       /\ items' = IF status = 200
                   THEN (items \ {ItemOf(i)}) \cup {[ItemOf(i) EXCEPT !.stamp = stamp]}
                   ELSE items
       /\ UNCHANGED <<authVars, stepVars, scope, athletes, docs, nextItem>>

\* DELETE of an item of a record
DeleteFromRecord(h, b, r, i) ==
    LET status == Status(RecordOutcome(h, b, NoBody, r, i, TRUE), 200)
    IN /\ h.kind = "deleteFromRecord"
       /\ RecordReply(h, b, NoBody, r, i, status)
       /\ items' = IF status = 200 THEN items \ {ItemOf(i)} ELSE items
       /\ UNCHANGED <<authVars, stepVars, scope, athletes, docs, nextItem>>

\* ---------------------------------------------------------- the access spec
Handlers ==
    AthleteHandlers \cup FinancialHandlers \cup CareerHandlers \cup PerformanceHandlers
        \cup InjuryHandlers

\* one run works on one list of one controller; the handlers that build the
\* athletes and their coaches sets are part of every run
Scopes == {[ctrl |-> h.ctrl, list |-> h.list] : h \in Handlers}
Setup == {"createAthleteProfile", "addCoach", "removeCoach"}
ScopeHandlers ==
    {h \in Handlers :
        \/ h.name \in Setup
        \/ h.ctrl = scope.ctrl /\ (h.list = scope.list \/ h.kind = "profile")}
InScope(kind) == {h \in ScopeHandlers : h.kind = kind}

\* the accounts are there, with an access token each; the collections are empty
InitAccess ==
    /\ users = [u \in ActorIds |-> Actor(u)]
    /\ accessIssued = ActorIds
    /\ nextTok = 1
    /\ nextMail = 1
    /\ now = 0
    /\ superseded = {}
    /\ issuedTo = [t \in Tokens |-> NoUid]
    /\ loggedOut = {}
    /\ consumed = {}
    /\ scope \in Scopes
    /\ athletes = [u \in ActorIds |-> NoAthlete]
    /\ docs = <<>>
    /\ items = {}
    /\ nextItem = 1
    /\ resp = NoResponse
    /\ athleteDocs = <<>>
    /\ calls = <<>>

\* the users who set up an athlete profile in a run
ProfileRoles == {"athlete", "coach"}
ProfileBearers == {b \in ActorBearers : Role(b.id) \in ProfileRoles}
\* the handlers that build the athletes are exercised in full in the runs on
\* the athlete controller; in the other runs the owners send them
SetupBearers ==
    IF scope.ctrl = "athlete" THEN ActorBearers
    ELSE ProfileBearers
CoachInputs == IF scope.ctrl = "athlete" THEN CoachIds \cup {NoId} ELSE CoachIds
\* the bodies that make a difference to handler h on athlete a, and whether a
\* file or query parameter is there
BodiesOf(h, a) ==
    {Valid(h, a)} \cup {Stamping(h, a, s) : s \in StampInputs}
        \cup (IF h.validator \/ h.requires # "none" THEN {NoBody} ELSE {})
Given(h) == IF h.validator \/ h.requires # "none" THEN BOOLEAN ELSE {TRUE}
Sent(h, a, v) == IF v THEN Valid(h, a) ELSE NoBody
\* the bodies of a profile write: no list, or the list in scope with one row,
\* unstamped or stamped with a coach
RowBodies ==
    {NoBody} \cup (IF scope.list = "" THEN {}
                   ELSE {Body(FALSE, NoId, NoId, FALSE, NoUid, TRUE)}
                            \cup {Body(FALSE, NoId, NoId, TRUE, s, TRUE) : s \in CoachIds})
\* the bodies of a record create about athlete a: athleteId as the schema has
\* it, athlete as the controller reads it, or both
RecordBodies(h, a) ==
    {Valid(h, a), [Valid(h, a) EXCEPT !.athlete = a],
     [Valid(h, a) EXCEPT !.athleteId = NoId, !.athlete = a]}

NextAccess ==
    \/ Idle /\ \E h \in InScope("createAthlete"), b \in ProfileBearers, v \in BOOLEAN :
                  CreateAthleteProfile(h, b, Sent(h, NoId, v))
    \/ Idle /\ \E h \in InScope("addCoach"), b \in SetupBearers, a \in AthleteParams,
                  c \in CoachInputs : AddCoach(h, b, a, c)
    \/ Idle /\ \E h \in InScope("removeCoach"), b \in SetupBearers, a \in AthleteParams,
                  c \in CoachIds : RemoveCoach(h, b, a, c)
    \/ Idle /\ \E h \in InScope("read"), b \in ActorBearers, a \in AthleteParams :
                  \E v \in Given(h) : Read(h, b, a, v)
    \/ Idle /\ \E h \in InScope("write"), b \in ActorBearers, a \in AthleteParams :
                  \E v \in Given(h) : WriteAthlete(h, b, Sent(h, a, v), a, v)
    \/ Idle /\ \E h \in InScope("profile"), b \in ActorBearers, body \in RowBodies,
                  a \in AthleteParams : WriteProfile(h, b, body, a)
    \/ Idle /\ \E h \in InScope("add"), b \in ActorBearers, a \in AthleteParams :
                  \E body \in BodiesOf(h, a) : AddItem(h, b, body, a, body.required)
    \/ Idle /\ \E h \in InScope("update"), b \in ActorBearers, a \in AthleteParams,
                  i \in ItemParams : \E body \in BodiesOf(h, a) : UpdateItem(h, b, body, a, i)
    \/ Idle /\ \E h \in InScope("delete"), b \in ActorBearers, a \in AthleteParams,
                  i \in ItemParams : DeleteItem(h, b, a, i)
    \/ Idle /\ \E h \in InScope("readRecord"), b \in ActorBearers, r \in DocParams :
                  ReadRecord(h, b, r)
    \/ Idle /\ \E h \in InScope("createRecord"), b \in ActorBearers, a \in AthleteParams :
                  \E body \in RecordBodies(h, a) : CreateRecord(h, b, body)
    \/ Idle /\ \E h \in InScope("writeRecord"), b \in ActorBearers, r \in DocParams,
                  a \in AthleteParams : \E v \in Given(h) : WriteRecord(h, b, Sent(h, a, v), r)
    \/ Idle /\ \E h \in InScope("deleteRecord"), b \in ActorBearers, r \in DocParams :
                  DeleteRecord(h, b, r)
    \/ Idle /\ \E h \in InScope("addToRecord"), b \in ActorBearers, r \in DocParams :
                  \E v \in Given(h) : AddToRecord(h, b, Sent(h, AthleteOfRecord(r), v), r, v)
    \/ Idle /\ \E h \in InScope("annotate"), b \in ActorBearers, r \in DocParams,
                  i \in ItemParams : Annotate(h, b, NoBody, r, i)
    \/ Idle /\ \E h \in InScope("updateInRecord"), b \in ActorBearers, r \in DocParams,
                  i \in ItemParams :
                  \E body \in BodiesOf(h, AthleteOfRecord(r)) : UpdateInRecord(h, b, body, r, i)
    \/ Idle /\ \E h \in InScope("deleteFromRecord"), b \in ActorBearers, r \in DocParams,
                  i \in ItemParams : DeleteFromRecord(h, b, r, i)
    \/ Idle /\ \E h \in ScopeHandlers, b \in ActorBearers : RejectUpload(h, b)
    \/ Idle /\ \E h \in ScopeHandlers : Anonymous(h)
    \/ Respond

SpecAccess == InitAccess /\ [][NextAccess]_vars

\* ------------------------------------------------------ createAthleteProfile,
\* one await at a time. Requests of the same or of different users overlap:
\* each call first looks for an Athlete document of its user and, when none is
\* found, creates one in a later step.
InitProfiles ==
    /\ InitAccess
    /\ scope = [ctrl |-> "athlete", list |-> ""]

\* authenticate, validateAthleteProfile, then Athlete.findOne({user}): 401 or
\* 400 from the middleware, 400 when a document is found, else the call goes on
FindExistingAthlete(h, b, body) ==
    LET u == Authenticate(b).user
        pre == Middleware(h, b, body)
        existing == \E k \in 1..Len(athleteDocs) : athleteDocs[k].user = u
    IN /\ Len(calls) < MaxCalls
       /\ calls' = Append(calls,
                          [user |-> u,
                           status |-> IF pre # 0 THEN pre ELSE IF existing THEN 400 ELSE 0])
       /\ UNCHANGED <<authVars, scope, athletes, docs, items, nextItem, resp, athleteDocs>>

\* Athlete.create({user: req.user.id, ...req.body}), answered 201
CreateNewAthlete(c) ==
    /\ calls[c].status = 0
    /\ athleteDocs' = Append(athleteDocs, [user |-> calls[c].user])
    /\ calls' = [calls EXCEPT ![c].status = 201]
    /\ UNCHANGED <<authVars, scope, athletes, docs, items, nextItem, resp>>

NextProfiles ==
    \/ \E h \in InScope("createAthlete"), b \in ActorBearers \cup {NoBearer},
          v \in BOOLEAN : FindExistingAthlete(h, b, Sent(h, NoId, v))
    \/ \E c \in 1..Len(calls) : CreateNewAthlete(c)

SpecProfiles == InitProfiles /\ [][NextProfiles]_vars

\* ------------------------------------------------------ addIncomeRecord, one
\* await at a time. A call keeps what it read: the document findOne returned
\* (NoId when none) and, with it, the document's list as it was then; save
\* writes the document the call holds, with the pushed item, over the stored one.
FindFinancial(h, b, body, a) ==
    LET pre == Outcome(h, b, body, a, NoId, TRUE)
        d == FindDoc(a)
    IN /\ h.name = "addIncomeRecord"
       /\ Len(calls) < MaxCalls
       /\ calls' = Append(calls,
                          [user |-> Authenticate(b).user, athlete |-> a, status |-> pre,
                           found |-> pre = 0 /\ d # NoId,
                           doc |-> IF pre = 0 THEN d ELSE NoId,
                           list |-> IF pre = 0 THEN {it \in items : it.doc = d} ELSE {},
                           item |-> NoId])
       /\ UNCHANGED <<authVars, scope, athletes, docs, items, nextItem, resp, athleteDocs>>

\* Financial.create({athlete: athleteId, income: []}) of a call that found none
CreateFinancial(c) ==
    /\ calls[c].status = 0
    /\ calls[c].doc = NoId
    /\ docs' = Append(docs, [athlete |-> calls[c].athlete, stamp |-> NoUid])
    /\ calls' = [calls EXCEPT ![c].doc = Len(docs) + 1]
    /\ UNCHANGED <<authVars, scope, athletes, items, nextItem, resp, athleteDocs>>

SaveIncomeUnstamped(c) ==
    /\ calls[c].status = 0
    /\ calls[c].doc # NoId
    /\ items' = {it \in items : it.doc # calls[c].doc} \cup calls[c].list
                    \cup {[id |-> nextItem, doc |-> calls[c].doc, stamp |-> NoUid]}
    /\ nextItem' = nextItem + 1
    /\ calls' = [calls EXCEPT ![c].status = 201, ![c].item = nextItem]
    /\ UNCHANGED <<authVars, scope, athletes, docs, resp, athleteDocs>>

\* financial.income.push({...req.body, recordedBy: req.user.id}), save(), 201
SaveIncome(c) ==
    /\ calls[c].status = 0
    /\ calls[c].doc # NoId
    /\ items' = {it \in items : it.doc # calls[c].doc} \cup calls[c].list
                    \cup {[id |-> nextItem, doc |-> calls[c].doc, stamp |-> calls[c].user]}
    /\ nextItem' = nextItem + 1
    /\ calls' = [calls EXCEPT ![c].status = 201, ![c].item = nextItem]
    /\ UNCHANGED <<authVars, scope, athletes, docs, resp, athleteDocs>>

\* the athlete and, possibly, the profile are there before the adds arrive
NextIncome ==
    \/ Idle /\ calls = <<>>
            /\ \E h \in InScope("createAthlete"), b \in ProfileBearers :
                  CreateAthleteProfile(h, b, Valid(h, NoId))
    \/ Idle /\ calls = <<>>
            /\ \E h \in InScope("profile"), b \in ProfileBearers, a \in Athletes :
                  WriteProfile(h, b, NoBody, a)
    \/ Respond
    \/ Idle /\ \E h \in InScope("add"), b \in ActorBearers, a \in AthleteParams,
                  v \in BOOLEAN : FindFinancial(h, b, Sent(h, a, v), a)
    \/ \E c \in 1..Len(calls) : CreateFinancial(c)
    \/ \E c \in 1..Len(calls) : SaveIncome(c)

SpecIncome == InitAccess /\ [][NextIncome]_vars

\* ------------------------------------------------------ profile writes whose
\* body names an athlete. The profile routes have no validator, and the handler
\* hands req.body to the store with the athlete of the path.
NextFiling ==
    \/ Idle /\ \E h \in InScope("createAthlete"), b \in ProfileBearers :
                  CreateAthleteProfile(h, b, Valid(h, NoId))
    \/ Idle /\ \E h \in InScope("profile"), b \in ActorBearers, a \in AthleteParams,
                  x \in AthleteParams \cup {NoId} :
                  WriteProfile(h, b, [NoBody EXCEPT !.athlete = x], a)
    \/ Respond

SpecFiling == InitAccess /\ [][NextFiling]_vars

\* ===================================================================== claims
\* the refresh tokens issued to user u so far, and the latest of them
IssuedTokens(u) == {t \in Tokens : issuedTo[t] = u}
LatestToken(u) == CHOOSE t \in IssuedTokens(u) : \A s \in IssuedTokens(u) : s <= t

\* a response that hands out a token pair
IssuesPair(r) == r.newTok # NoTok \/ r.access # NoUid

\* C1: single active refresh token. A refresh-token request presenting a token T
\* that an earlier successful refresh consumed, or that a later login of the same
\* user replaced, is answered 401 'Invalid refresh token', issues no tokens and
\* changes no user; and a refresh that succeeds presented the most recently
\* issued refresh token of its user.
C1_SingleActiveRefreshToken ==
    [][/\ (resp'.op = "refreshToken" /\ resp'.tok \in superseded)
             => /\ resp'.status = 401
                /\ resp'.message = "Invalid refresh token"
                /\ ~IssuesPair(resp')
                /\ users' = users
       /\ (resp'.op = "refreshToken" /\ resp'.status = 200)
             => /\ resp'.tok = LatestToken(resp'.actor)
                /\ users'[resp'.actor].refreshToken = resp'.newTok]_vars

\* a replaced token was presented while its user still had an accepted one
C1_Witness ==
    /\ resp.op = "refreshToken"
    /\ resp.tok \in superseded
    /\ resp.status = 401
    /\ users[issuedTo[resp.tok]].refreshToken # NoTok
    /\ \E t \in superseded : t # resp.tok

\* C2: after a logout of U succeeded, and until U logs in again, U's stored
\* refresh token is null and a refresh-token request presenting any token issued
\* to U is rejected without issuing a token pair.
C2_LogoutRevokesRefresh ==
    [][/\ \A u \in loggedOut' : users'[u].refreshToken = NoTok
       /\ (/\ resp'.op = "refreshToken"
           /\ resp'.tok # NoTok
           /\ issuedTo[resp'.tok] \in loggedOut)
             => /\ resp'.status = 401
                /\ ~IssuesPair(resp')
                /\ users' = users]_vars

\* after a logout, a token issued to that user before it was presented and refused
C2_Witness ==
    /\ resp.op = "refreshToken"
    /\ resp.tok # NoTok
    /\ issuedTo[resp.tok] \in loggedOut
    /\ resp.tok \notin superseded
    /\ resp.status = 401

\* the caller of login(email, password) is entitled to a session
Eligible(email, password) ==
    LET u == FindByEmail(email)
    IN /\ u # NoUid
       /\ ComparePassword(u, password)
       /\ users[u].isVerified
       /\ users[u].isActive

\* C3: login issues a token pair, or overwrites a stored refresh token, only
\* when the password matches and the user is verified and active; correct
\* credentials of an unverified user are answered 401 'Please verify your email
\* before logging in', with no pair issued and no stored refresh token changed.
C3_LoginOnlyWhenEligible ==
    [][\A e \in Emails, p \in Passwords :
          Login(e, p) =>
             /\ (IssuesPair(resp') \/ resp'.status = 200
                   \/ \E u \in UserIds : users'[u].refreshToken # users[u].refreshToken)
                  => Eligible(e, p)
             /\ (/\ FindByEmail(e) # NoUid
                 /\ ComparePassword(FindByEmail(e), p)
                 /\ ~users[FindByEmail(e)].isVerified)
                  => /\ resp'.status = 401
                     /\ resp'.message = "Please verify your email before logging in"
                     /\ ~IssuesPair(resp')
                     /\ users' = users]_vars

\* an unverified user was refused, and holds no refresh token
C3_Witness ==
    /\ resp.op = "login"
    /\ resp.status = 401
    /\ resp.message = "Please verify your email before logging in"
    /\ resp.actor # NoUid
    /\ ~users[resp.actor].isVerified
    /\ ~IssuesPair(resp)
    /\ users[resp.actor].refreshToken = NoTok

\* C4: verifyEmail / resetPassword accept a token only if it matches (for a reset
\* token: its SHA-256 matches) the value stored for a user whose expiry lies in
\* the future; the accepting request clears that user's token and expiry; and a
\* later request presenting a token that was once accepted is answered 400 and
\* changes no user.
C4_TokensSingleUse ==
    [][/\ (resp'.op = "verifyEmail" /\ resp'.status = 200)
             => /\ users[resp'.actor].verificationToken = resp'.tok
                /\ users[resp'.actor].verificationTokenExpiry > now
                /\ users'[resp'.actor].verificationToken = NoTok
                /\ users'[resp'.actor].verificationTokenExpiry = 0
       /\ (resp'.op = "resetPassword" /\ resp'.status = 200)
             => /\ users[resp'.actor].resetPasswordToken = Sha256(resp'.tok)
                /\ users[resp'.actor].resetPasswordExpiry > now
                /\ users'[resp'.actor].resetPasswordToken = NoTok
                /\ users'[resp'.actor].resetPasswordExpiry = 0
       /\ (resp'.op \in {"verifyEmail", "resetPassword"} /\ resp'.tok \in consumed)
             => /\ resp'.status = 400
                /\ users' = users]_vars

\* both kinds of token have been used, and a used one was presented again
C4_Witness ==
    /\ resp.op \in {"verifyEmail", "resetPassword"}
    /\ resp.tok \in consumed
    /\ resp.status = 400
    /\ \E u \in UserIds : users[u].isVerified /\ users[u].password = "pw2"
    /\ Cardinality(consumed) >= 2

\* the routes of auth.routes.js that run authenticate first
ProtectedOps == {"logout", "getCurrentUser", "updateCurrentUser", "changePassword"}

\* the header carries no usable token, or the token of a user who is gone or
\* deactivated
Unauthenticated(b) ==
    \/ b.kind \in {"none", "invalid", "expired"}
    \/ /\ b.kind = "valid"
       /\ \/ b.id \notin DOMAIN users
          \/ ~users[b.id].exists
          \/ ~users[b.id].isActive

HandlerOf(r) == CHOOSE h \in Handlers : h.name = r.op /\ h.ctrl = r.ctrl
Operands(policy) == {policy[k] : k \in 1..Len(policy)}
\* a response of a resource handler to an authenticated actor
Served(r) == r.ctrl # "auth" /\ r.actor # NoUid
Succeeded(r) == r.status \in {200, 201}
WriteKinds == {h.kind : h \in Handlers} \ {"read", "readRecord"}
\* the creator stamps an item or record can carry
Stamps == {NoUid} \cup ActorIds

\* C6: admin is a universal override. A request by an authenticated actor whose
\* role is admin is never answered 403 by any handler of the athlete,
\* performance, career, injury and financial controllers; and whatever request
\* comes next, neither the route's authorize list nor the handler's
\* isAuthorized denies an admin, whatever the owner, the coaches set and the
\* creator stamp of the target.
C6_AdminNeverForbidden ==
    /\ (Served(resp) /\ Role(resp.actor) = "admin") => resp.status # 403
    /\ Idle => \A h \in ScopeHandlers, u \in ActorIds, a \in Athletes, s \in Stamps :
                  Role(u) = "admin"
                      => /\ Authorize(h.roles, u) = 0
                         /\ h.policy # <<>>
                               => Denied(IsAuthorized(h.policy, u, a, s, s)) # 403

\* an admin who neither owns the athlete nor created the item has updated an
\* item that carries somebody else's stamp
C6_Witness ==
    /\ Served(resp)
    /\ Role(resp.actor) = "admin"
    /\ resp.kind = "update"
    /\ resp.status = 200
    /\ {"athlete", "item"} \subseteq resp.facts
    /\ resp.facts \cap {"owner", "creator", "unstamped"} = {}

OwnerNamed(h) == h.roles = {} /\ (h.policy = <<>> \/ "owner" \in Operands(h.policy))
\* response r went to an actor whom operand c of an isAuthorized admits
Admits(c, r) ==
    \/ c = "owner" /\ "owner" \in r.facts
    \/ c = "coachMember" /\ "coachMember" \in r.facts
    \/ c = "coachRole" /\ Role(r.actor) = "coach"
    \/ c = "physio" /\ Role(r.actor) = "physiotherapist"
    \/ c = "advisor" /\ Role(r.actor) = "financial_advisor"
    \/ c = "admin" /\ Role(r.actor) = "admin"
    \/ c = "stamp" /\ "creator" \in r.facts
    \/ c = "recordStamp" /\ "recorder" \in r.facts
\* the route's role list and the handler's isAuthorized both let the actor of r in
Admitted(h, r) ==
    /\ h.roles = {} \/ Role(r.actor) \in h.roles
    /\ h.policy = <<>> \/ \E c \in Operands(h.policy) : Admits(c, r)

CoachOnFinancial(r) == Served(r) /\ r.ctrl = "financial" /\ Role(r.actor) = "coach"

C9_FinancialWriteDecision ==
    ( /\ Served(resp)
      /\ resp.ctrl = "financial"
      /\ resp.kind \in {"profile", "add", "update", "delete"}
      /\ resp.status \notin {400, 404}
      /\ "athlete" \in resp.facts
      /\ resp.kind \in {"update", "delete"} => "item" \in resp.facts )
        => IF \/ "owner" \in resp.facts
              \/ Role(resp.actor) \in {"financial_advisor", "admin"}
              \/ resp.kind \in {"update", "delete"} /\ "creator" \in resp.facts
           THEN Succeeded(resp)
           ELSE resp.status = 403

\* C10: a performance record is created exactly for the owning user, a member
\* of the athlete's coaches set or an admin, and updated or deleted exactly for
\* those and the record's recordedBy; every other actor is answered 403.  In
\* particular a coach listed in the coaches of athlete A creates a record for
\* A.  Stated of the requests that pass the validator and name an existing
\* athlete, or an existing record of one.
C10_PerformanceDecision ==
    /\ ( /\ Served(resp)
         /\ resp.ctrl = "performance"
         /\ resp.op = "createPerformanceRecord"
         /\ resp.ran
         /\ "athlete" \in resp.facts )
           => IF \/ resp.facts \cap {"owner", "coachMember"} # {}
                 \/ Role(resp.actor) = "admin"
              THEN resp.status = 201
              ELSE resp.status = 403
    /\ ( /\ Served(resp)
         /\ resp.ctrl = "performance"
         /\ resp.op \in {"updatePerformanceRecord", "deletePerformanceRecord"}
         /\ resp.ran
         /\ {"athlete", "record"} \subseteq resp.facts )
           => IF \/ resp.facts \cap {"owner", "coachMember", "recorder"} # {}
                 \/ Role(resp.actor) = "admin"
              THEN resp.status = 200
              ELSE resp.status = 403

\* ------------------------------------------------------ claims on the injury API
\* C11: createInjuryRecord and updateInjuryRecord allow exactly the actors
\* with role physiotherapist, the current members of the athlete's coaches
\* set and role admin; every other actor is answered 403.  Stated of the
\* requests that pass the validator and name an existing athlete, or an
\* existing record of one.
C11_InjuryWriteDecision ==
    /\ ( /\ Served(resp)
         /\ resp.ctrl = "injury"
         /\ resp.op = "createInjuryRecord"
         /\ resp.ran
         /\ "athlete" \in resp.facts )
           => IF \/ Role(resp.actor) \in {"physiotherapist", "admin"}
                 \/ "coachMember" \in resp.facts
              THEN resp.status = 201
              ELSE resp.status = 403
    /\ ( /\ Served(resp)
         /\ resp.ctrl = "injury"
         /\ resp.op = "updateInjuryRecord"
         /\ resp.ran
         /\ {"athlete", "record"} \subseteq resp.facts )
           => IF \/ Role(resp.actor) \in {"physiotherapist", "admin"}
                 \/ "coachMember" \in resp.facts
              THEN resp.status = 200
              ELSE resp.status = 403

\* C12: owning the athlete grants no injury write access. An actor who is the
\* athlete's owning user and whose role is neither physiotherapist nor admin
\* is answered 403 by createInjuryRecord and updateInjuryRecord for that
\* athlete, after any sequence of operations.  Stated of the requests that
\* pass the validator.
C12_OwnerForbiddenInjuryWrite ==
    ( /\ Served(resp)
      /\ resp.ctrl = "injury"
      /\ resp.op \in {"createInjuryRecord", "updateInjuryRecord"}
      /\ resp.ran
      /\ "owner" \in resp.facts
      /\ Role(resp.actor) \notin {"physiotherapist", "admin"} )
        => resp.status = 403

C14_SharedCareerListDecision ==
    ( /\ Served(resp)
      /\ resp.ctrl = "career"
      /\ resp.kind \in {"add", "update", "delete"}
      /\ HandlerOf(resp).list \in {"goals", "competitions", "mentors", "opportunities"}
      /\ resp.status \notin {400, 404}
      /\ "athlete" \in resp.facts
      /\ resp.kind \in {"update", "delete"} => "item" \in resp.facts )
        => IF \/ resp.facts \cap {"owner", "coachMember"} # {}
              \/ Role(resp.actor) = "admin"
              \/ resp.kind \in {"update", "delete"} /\ "creator" \in resp.facts
           THEN Succeeded(resp)
           ELSE resp.status = 403

\* C15: on the athlete's own sub-collections achievements, documents and
\* coaches, the writes (add, update, delete, addCoach, removeCoach) are
\* allowed exactly for the athlete's owner, admin and an actor whose role is
\* coach; everybody else is answered 403.  Stated of the requests that pass
\* validation and find the athlete and, for update and delete, the item.
C15_AthleteListDecision ==
    ( /\ Served(resp)
      /\ resp.ctrl = "athlete"
      /\ \/ /\ resp.kind \in {"add", "update", "delete"}
            /\ HandlerOf(resp).list \in {"achievements", "documents"}
         \/ resp.kind \in {"addCoach", "removeCoach"}
      /\ resp.status \notin {400, 404}
      /\ "athlete" \in resp.facts
      /\ resp.kind \in {"update", "delete"} => "item" \in resp.facts )
        => IF \/ "owner" \in resp.facts
              \/ Role(resp.actor) \in {"admin", "coach"}
           THEN Succeeded(resp)
           ELSE resp.status = 403

\* ------------------------------------------------------ claims on failures
\* C16: existence is checked before authorization in every handler. When the
\* athlete, the parent record or the line item a request targets does not
\* exist, the request of an authenticated actor is never answered 403,
\* whoever the actor is.
C16_MissingTargetNotForbidden ==
    Served(resp) =>
        /\ ( /\ resp.kind \in {"readRecord", "writeRecord", "deleteRecord",
                               "addToRecord", "updateInRecord", "deleteFromRecord",
                               "annotate"}
             /\ "record" \notin resp.facts ) => resp.status # 403
        /\ ( /\ resp.kind \in {"update", "delete"}
             /\ "item" \notin resp.facts ) => resp.status # 403
        /\ ( /\ resp.kind \in {"read", "write", "profile", "add", "update", "delete",
                               "addCoach", "removeCoach"}
             /\ HandlerOf(resp).checkAthlete
             /\ "athlete" \notin resp.facts ) => resp.status # 403

\* C17: every failure response carries a fixed generic message. No response
\* answered 401, 403, 404 or 500 contains the message text of an exception
\* raised by the store, the driver or the upload middleware.
C17_NoExceptionText ==
    resp.status \in {401, 403, 404, 500} => resp.message # FileFilter(FALSE)

\* ------------------------------------------------------ claims on stored data
\* C18: every embedded line item of the financial, career, performance and
\* injury lists carries a creator stamp equal to the id of the actor whose
\* request created it, and no later update or profile write changes or
\* removes that stamp.
C18_CreatorStampKept ==
    [][ scope.ctrl # "athlete" =>
          /\ \A jt \in items' :
                (\A it \in items : it.id # jt.id) => jt.stamp = resp'.actor
          /\ \A it \in items, jt \in items' :
                it.id = jt.id => jt.stamp = it.stamp ]_vars

C19_OneAthletePerUser ==
    /\ \A u \in ActorIds :
          Cardinality({k \in 1..Len(athleteDocs) : athleteDocs[k].user = u}) <= 1
    /\ Cardinality({c \in 1..Len(calls) : calls[c].status = 201}) = Len(athleteDocs)

C22_RolesFromRegistration ==
    /\ [](\A u \in UserIds :
            users[u].exists => /\ users[u].role \in RegistrationRoles
                               /\ users[u].role # "financial_advisor")
    /\ [][\A u \in UserIds :
            users[u].exists => users'[u].exists /\ users'[u].role = users[u].role]_vars

\* a registration has been refused by the validator for its role, next to a
\* user whose registration was accepted
C22_Witness ==
    /\ resp.op = "register"
    /\ resp.status = 400
    /\ ~resp.ran
    /\ \E u \in UserIds \ {1} : users[u].exists

\* ------------------------------------------------------ claims on records
\* C23: a POST /api/injury request of a physiotherapist, or a POST
\* /api/performance request of the owning user, that passes the route's
\* validator and names an existing athlete is answered 201 and stores a record
\* of that athlete whose recordedBy is the actor.
C23_ValidCreateStoresRecord ==
    ( /\ Served(resp)
      /\ resp.kind = "createRecord"
      /\ resp.ran
      /\ "athlete" \in resp.facts
      /\ \/ resp.ctrl = "injury" /\ Role(resp.actor) = "physiotherapist"
         \/ resp.ctrl = "performance" /\ "owner" \in resp.facts )
        => /\ resp.status = 201
           /\ \E r \in 1..Len(docs) : docs[r] # Gone /\ docs[r].stamp = resp.actor

\* ------------------------------------------------------ claims on effects
\* C24: a request answered 401, 403 or 404 modifies no stored state. No user,
\* athlete, document or item is created, changed or deleted by it, and no
\* file is added to the uploads directory served under /uploads.
C24_RefusedRequestHasNoEffect ==
    [][ (resp' # resp /\ resp'.status \in {401, 403, 404})
          => /\ users' = users
             /\ athletes' = athletes
             /\ docs' = docs
             /\ items' = items
             /\ "stored" \notin resp'.facts ]_vars

\* ------------------------------------------------------ claims on accounts
\* C25: register is all-or-nothing. A registration answered 400 or 500 has
\* created no user record, so the email address of a registration that failed
\* while the verification email was sent can still be registered.
C25_FailedRegisterCreatesNothing ==
    [][ (resp' # resp /\ resp'.op = "register" /\ resp'.status \in {400, 500})
          => users' = users ]_vars

\* C26: a profile write of the financial or career controller, authorized
\* against the athlete of the request path, creates or modifies only the
\* document of that athlete: a document's athlete reference never changes, and
\* a new document references an athlete its writer was authorized for.
C26_ProfileFiledUnderPathAthlete ==
    [][ (resp' # resp /\ resp'.kind = "profile" /\ Succeeded(resp'))
          => /\ \A d \in 1..Len(docs) : docs'[d].athlete = docs[d].athlete
             /\ \A d \in 1..Len(docs') :
                   d > Len(docs) =>
                       /\ docs'[d].athlete \in Athletes
                       /\ Denied(IsAuthorized(HandlerOf(resp').policy, resp'.actor,
                                              docs'[d].athlete, NoUid, NoUid)) = 0 ]_vars

\* C27: a refresh token value yields at most one new token pair. Of the
\* refresh-token requests that present the same token, with their lookup and
\* save steps interleaved, at most one is answered 200.
C27_OnePairPerRefreshToken ==
    \A c, e \in 1..Len(calls) :
        (calls[c].status = 200 /\ calls[e].status = 200 /\ calls[c].tok = calls[e].tok)
            => c = e

\* C28: once a logout of user U has been answered 200, U's stored refresh
\* token stays null until U's next successful login, also when a refresh-token
\* request of U was between its lookup and its save at the time of the logout.
C28_LogoutOutlastsRefresh ==
    \A u \in UserIds : (users[u].exists /\ u \in loggedOut) => users[u].refreshToken = NoTok

\* ---------------------------------------------------- claims on admin access
\* C29: register takes role admin from any caller: a registration with role
\* admin under a free email is never refused and stores a user whose role is
\* admin; when that user has verified and logs in, the login answers 200 with
\* an access token for that user, authenticate accepts the token, and every
\* route-level authorize list containing admin and every admin clause of a
\* policy grants.
C29_AdminByRegistration ==
    /\ [][\A e \in Emails, p \in Passwords, m \in BOOLEAN :
            (Idle /\ FindByEmail(e) = NoUid /\ Register(e, p, "admin", m)) =>
               /\ resp'.status \in {201, 500}
               /\ resp'.actor # NoUid
               /\ ~users[resp'.actor].exists
               /\ users'[resp'.actor].exists
               /\ users'[resp'.actor].email = e
               /\ users'[resp'.actor].role = "admin"]_vars
    /\ []((resp.op = "login" /\ resp.status = 200 /\ Role(resp.actor) = "admin") =>
            /\ resp.access = resp.actor
            /\ Authenticate([kind |-> "valid", id |-> resp.access]) =
                  [status |-> 0, user |-> resp.actor]
            /\ \A h \in Handlers :
                  "admin" \in h.roles => Authorize(h.roles, resp.actor) = 0
            /\ Clause("admin", resp.actor, NoId, NoUid, NoUid) = "yes")

C29_Witness ==
    /\ resp.op = "login"
    /\ resp.status = 200
    /\ resp.actor # 1
    /\ Role(resp.actor) = "admin"
    /\ resp.access = resp.actor
    /\ \E h \in Handlers : "admin" \in h.roles /\ Authorize(h.roles, resp.actor) = 0

\* C30: a token pair is issued only to a user who is verified and active at
\* the moment of issue: login and refresh-token answer 200 with new tokens
\* only for such a user.
C30_PairOnlyForVerifiedActive ==
    (resp.op \in {"login", "refreshToken"} /\ (resp.status = 200 \/ IssuesPair(resp))) =>
        /\ resp.actor # NoUid
        /\ users[resp.actor].isVerified
        /\ users[resp.actor].isActive

====
